---- MODULE Spec2Model ----
(***************************************************************************)
(* Lunar-lander simulation kernel: Lander (Entity.cpp), Physics            *)
(* (Physics.cpp), Game (Game.cpp) and the Terrain queries declared in      *)
(* Terrain.h.                                                              *)
(*                                                                         *)
(* The C++ code computes in float.  The model computes the same formulas   *)
(* exactly, in fixed point:                                                *)
(*   time         tenths of a second          (deltaTime 0.1   -> 1)       *)
(*   thrust level tenths                      (level 1.0       -> 10)      *)
(*   gravity      hundredths                  (1.62            -> 162)     *)
(*   velocity     1e-5 units                  (gravity*dt*10.31 is exact)  *)
(*   position     1e-6 units                  (velocity*dt is exact)       *)
(*   fuel         hundredths                  (rate*level*dt is exact)     *)
(*   rotation     whole degrees                                            *)
(***************************************************************************)
EXTENDS Integers, Sequences, FiniteSets, TLC

\* ------------------------------------------------------------ scales ----
PosScale == 1000000
FuelScale == 100

\* ------------------------------------------------- program constants ----
LanderWidth == 20
LanderHeight == 30
LanderDepth == 20
LanderMass == 10000
MaxFuelUnits == 1000
FuelConsumptionRate == 10
GravityFactor == 1031
ThrustFactor == 25
DragCoefficient == 5
WindowWidth == 800
WindowHeight == 600
RotateStep == 2
DeltaTimeCap == 1
GravityEasy == 100
GravityNormal == 162
GravityHard == 200
DefaultTimeScale == 1
DefaultAirDensity == 0
ResetHeight == 100

mMaxFuel == MaxFuelUnits * FuelScale

\* ---------------------------------------------------------- helpers -----
Max(a, b) == IF a >= b THEN a ELSE b
Min(a, b) == IF a <= b THEN a ELSE b
Abs(a) == IF a < 0 THEN 0 - a ELSE a

\* Integer quotient rounded toward zero, as C++ integer division does.
TruncDiv(a, b) == IF a >= 0 THEN a \div b ELSE 0 - ((0 - a) \div b)

\* =========================== Lander (Entity.cpp) ========================

\* Entity::SetPosition(x, y, z) on a lander record.
SetPosition(l, x, y, z) == [l EXCEPT !.mPosition = <<x, y, z>>]

\* Entity::SetRotation(x, y, z)
SetRotation(l, x, y, z) == [l EXCEPT !.mRotation = <<x, y, z>>]

\* Lander::Lander(): Entity() zeroes the transform, the initialiser list
\* sets the flight state.
LanderNew ==
    [ mPosition     |-> <<0, 0, 0>>,
      mRotation     |-> <<0, 0, 0>>,
      mVelocity     |-> <<0, 0, 0>>,
      mThrustLevel  |-> 0,
      mThrustActive |-> FALSE,
      mFuel         |-> mMaxFuel,
      mLanded       |-> FALSE,
      mCrashed      |-> FALSE ]

\* BurnFuel without the clamp at zero.
BurnFuel_NoClamp(l, deltaTime) ==
    IF l.mThrustActive /\ l.mFuel > 0
    THEN LET burnt == l.mFuel - FuelConsumptionRate * l.mThrustLevel * deltaTime
         IN  [l EXCEPT !.mFuel = burnt,
                       !.mThrustActive = IF burnt <= 0 THEN FALSE ELSE @]
    ELSE l

\* BurnFuel that leaves thrust on when the tank runs dry.
BurnFuel_StaysOn(l, deltaTime) ==
    IF l.mThrustActive /\ l.mFuel > 0
    THEN [l EXCEPT !.mFuel = Max(0, @ - FuelConsumptionRate * l.mThrustLevel * deltaTime)]
    ELSE l

\* Lander::Update(deltaTime): integrates the position with the current
\* velocity, then burns fuel when thrust is active.
BurnFuel(l, deltaTime) ==
    IF l.mThrustActive /\ l.mFuel > 0
    THEN LET burnt == Max(0, l.mFuel - FuelConsumptionRate * l.mThrustLevel * deltaTime)
         IN  [l EXCEPT !.mFuel = burnt,
                       !.mThrustActive = IF burnt <= 0 THEN FALSE ELSE @]
    ELSE l

LanderUpdate(l, deltaTime) ==
    LET moved == [l EXCEPT !.mPosition =
                     << l.mPosition[1] + l.mVelocity[1] * deltaTime,
                        l.mPosition[2] + l.mVelocity[2] * deltaTime,
                        l.mPosition[3] + l.mVelocity[3] * deltaTime >>]
    IN  BurnFuel(moved, deltaTime)

\* ApplyThrust storing the amount as given.
LanderApplyThrust_NoClamp(l, amount) ==
    IF l.mFuel <= 0
    THEN [l EXCEPT !.mThrustActive = FALSE, !.mThrustLevel = 0]
    ELSE [l EXCEPT !.mThrustLevel = amount, !.mThrustActive = (amount > 0)]

\* Lander::ApplyThrust(amount); amount in tenths, any integer.
LanderApplyThrust(l, amount) ==
    IF l.mFuel <= 0
    THEN [l EXCEPT !.mThrustActive = FALSE, !.mThrustLevel = 0]
    ELSE LET level == Max(0, Min(10, amount))
         IN  [l EXCEPT !.mThrustLevel = level, !.mThrustActive = (level > 0)]

\* The two normalisation loops of RotateLeft / RotateRight.
RECURSIVE WrapDown(_)
WrapDown(r) == IF r >= 360 THEN WrapDown(r - 360) ELSE r

RECURSIVE WrapUp(_)
WrapUp(r) == IF r < 0 THEN WrapUp(r + 360) ELSE r

\* Lander::RotateLeft(amount)
RotateLeft(l, amount) ==
    [l EXCEPT !.mRotation[3] = WrapDown(@ + amount)]

\* Lander::RotateRight(amount)
RotateRight(l, amount) ==
    [l EXCEPT !.mRotation[3] = WrapUp(@ - amount)]

\* Lander::Reset() that does not refill the tank.
LanderReset_KeepFuel(l) ==
    [ SetRotation(SetPosition(l, 0, ResetHeight * PosScale, 0), 0, 0, 0)
        EXCEPT !.mVelocity = <<0, 0, 0>>,
               !.mThrustLevel = 0,
               !.mThrustActive = FALSE,
               !.mLanded = FALSE,
               !.mCrashed = FALSE ]

\* Lander::Reset()
LanderReset(l) ==
    [ SetRotation(SetPosition(l, 0, ResetHeight * PosScale, 0), 0, 0, 0)
        EXCEPT !.mVelocity = <<0, 0, 0>>,
               !.mThrustLevel = 0,
               !.mThrustActive = FALSE,
               !.mFuel = mMaxFuel,
               !.mLanded = FALSE,
               !.mCrashed = FALSE ]

\* ========================== Terrain (Terrain.h) =========================
\* Terrain.cpp is not part of the sources at hand: the queries and the
\* generator below follow the design text (section 4.1).  Terrain
\* coordinates are whole units, as Generate2D(int width, int height) takes
\* them; lander coordinates are position units.

NumCells == 2
TerrainLevels == {60, 400}
SafeLandingSpeed == 200000
SafeLandingAngle == 5

\* x coordinate of grid line i of n equal-width cells over [0, width].
CellX(i, n, width) == (i * width) \div n

\* Horizontal footprint of the lander, in position units.
FootLeft(l) == l.mPosition[1] - (LanderWidth * PosScale) \div 2
FootRight(l) == l.mPosition[1] + (LanderWidth * PosScale) \div 2

\* Bottom edge of the lander as the design text defines it.
BottomEdge(l) == l.mPosition[2] - (LanderHeight * PosScale) \div 2

\* A segment underlies the lander when its span overlaps the footprint.
Underlies2D(s, l) ==
    /\ s.x1 * PosScale < FootRight(l)
    /\ s.x2 * PosScale > FootLeft(l)

SegmentsUnder(segs, l) == { i \in DOMAIN segs : Underlies2D(segs[i], l) }

\* Height of segment s at horizontal position x (clamped to its span).
SegmentHeightAt(s, x) ==
    LET cx == Max(s.x1 * PosScale, Min(s.x2 * PosScale, x))
    IN  s.y1 * PosScale + (s.y2 - s.y1) * TruncDiv(cx - s.x1 * PosScale, s.x2 - s.x1)

RECURSIVE SetMax(_)
SetMax(S) == LET x == CHOOSE y \in S : TRUE
             IN  IF S = {x} THEN x ELSE Max(x, SetMax(S \ {x}))

\* Terrain::CheckCollision2D(lander, collisionHeight)
CheckCollision2D(segs, l) ==
    LET hits == { SegmentHeightAt(segs[i], l.mPosition[1]) : i \in
                    { j \in SegmentsUnder(segs, l) :
                        BottomEdge(l) <= SegmentHeightAt(segs[j], l.mPosition[1]) } }
    IN  IF hits = {} THEN [hit |-> FALSE, collisionHeight |-> 0]
        ELSE [hit |-> TRUE, collisionHeight |-> SetMax(hits)]

\* Speed and tilt part of the landing test, shared by 2D and 3D.
WithinSafeThresholds(l) ==
    /\ Abs(l.mVelocity[1]) <= SafeLandingSpeed
    /\ Abs(l.mVelocity[2]) <= SafeLandingSpeed
    /\ \/ Abs(l.mRotation[3]) <= SafeLandingAngle
       \/ Abs(l.mRotation[3] - 360) <= SafeLandingAngle

\* Terrain::IsValidLanding2D(lander)
IsValidLanding2D(segs, l) ==
    /\ \A i \in SegmentsUnder(segs, l) : segs[i].isLandingPad
    /\ WithinSafeThresholds(l)

\* Contiguous cell ranges <<first cell, cell count>> that fit in n cells.
PadRanges(n) == { p \in (1..n) \X (1..n) : p[1] + p[2] - 1 <= n }

\* Width of the range p of n cells over [0, width].
PadWidth(p, n, width) == CellX(p[1] + p[2] - 1, n, width) - CellX(p[1] - 1, n, width)

\* The ranges the generator may flatten into the landing pad: the design
\* text lets it select any contiguous range and rules out a pad narrower
\* than the lander's footprint.  For the window's width every range
\* qualifies (a single cell is 400 wide).
PadChoices(n, width) ==
    { p \in PadRanges(n) : PadWidth(p, n, width) >= LanderWidth }

\* Height profiles: one level per grid point, within the play area.
HeightProfiles(n, height) ==
    [1..(n + 1) -> { v \in TerrainLevels : v >= 0 /\ v <= height }]

\* Terrain::CreateLandingPad2D: the grid heights with cells s..s+k-1
\* flattened to the height of the pad's first grid point.
FlattenPad(h, s, k) ==
    [ i \in DOMAIN h |-> IF i >= s /\ i <= s + k THEN h[s] ELSE h[i] ]

\* The segments of a height profile h (grid points 1..n+1) whose pad is
\* cells s..s+k-1.
SegmentsOf(h, s, k, n, width) ==
    [ i \in 1..n |->
        [ x1 |-> CellX(i - 1, n, width), y1 |-> h[i],
          x2 |-> CellX(i, n, width),     y2 |-> h[i + 1],
          isLandingPad |-> (i >= s /\ i <= s + k - 1) ] ]

\* Terrain::Generate2D(width, height): every outcome of the random walk and
\* of the pad placement.
Generate2D(width, height) ==
    { SegmentsOf(FlattenPad(h, p[1], p[2]), p[1], p[2], NumCells, width) :
        h \in HeightProfiles(NumCells, height), p \in PadChoices(NumCells, width) }

\* The two triangles of cell i, extruded over the depth axis [0, length].
\* vertices holds 3 vertices x 3 coordinates as TerrainTriangle does; the
\* normal is not modelled (no query reads it).
TrianglesOf(h, s, k, n, width, length) ==
    [ t \in 1..(2 * n) |->
        LET i   == (t + 1) \div 2
            xa  == CellX(i - 1, n, width)
            xb  == CellX(i, n, width)
            pad == (i >= s /\ i <= s + k - 1)
        IN  IF t % 2 = 1
            THEN [ vertices |-> <<xa, h[i], 0,  xb, h[i + 1], 0,  xa, h[i], length>>,
                   isLandingPad |-> pad ]
            ELSE [ vertices |-> <<xb, h[i + 1], 0,  xb, h[i + 1], length,  xa, h[i], length>>,
                   isLandingPad |-> pad ] ]

\* Terrain::Generate3D(width, length, height)
Generate3D(width, length, height) ==
    { TrianglesOf(FlattenPad(h, p[1], p[2]), p[1], p[2], NumCells, width, length) :
        h \in HeightProfiles(NumCells, height), p \in PadChoices(NumCells, width) }

TriMinX(t) == Min(t.vertices[1], Min(t.vertices[4], t.vertices[7]))
TriMaxX(t) == Max(t.vertices[1], Max(t.vertices[4], t.vertices[7]))
TriMinZ(t) == Min(t.vertices[3], Min(t.vertices[6], t.vertices[9]))
TriMaxZ(t) == Max(t.vertices[3], Max(t.vertices[6], t.vertices[9]))
TriHeight(t) == Max(t.vertices[2], Max(t.vertices[5], t.vertices[8]))

FootNear(l) == l.mPosition[3] - (LanderDepth * PosScale) \div 2
FootFar(l) == l.mPosition[3] + (LanderDepth * PosScale) \div 2

\* A triangle underlies the lander when its bounding footprint overlaps the
\* lander's (x, z) extents.
Underlies3D(t, l) ==
    /\ TriMinX(t) * PosScale < FootRight(l)
    /\ TriMaxX(t) * PosScale > FootLeft(l)
    /\ TriMinZ(t) * PosScale < FootFar(l)
    /\ TriMaxZ(t) * PosScale > FootNear(l)

TrianglesUnder(tris, l) == { i \in DOMAIN tris : Underlies3D(tris[i], l) }

\* Terrain::CheckCollision3D(lander, collisionHeight)
CheckCollision3D(tris, l) ==
    LET under == TrianglesUnder(tris, l)
        top   == SetMax({ TriHeight(tris[i]) * PosScale : i \in under })
    IN  IF under # {} /\ BottomEdge(l) <= top
        THEN [hit |-> TRUE, collisionHeight |-> top]
        ELSE [hit |-> FALSE, collisionHeight |-> 0]

\* Terrain::IsValidLanding3D(lander)
IsValidLanding3D(tris, l) ==
    /\ \A i \in TrianglesUnder(tris, l) : tris[i].isLandingPad
    /\ Abs(l.mVelocity[3]) <= SafeLandingSpeed
    /\ WithinSafeThresholds(l)

\* ========================== Physics (Physics.cpp) =======================

\* Physics::Physics()
PhysicsNew ==
    [ mGravity    |-> GravityNormal,
      mAirDensity |-> DefaultAirDensity,
      m3DMode     |-> FALSE,
      mLander     |-> FALSE,
      mTerrain    |-> FALSE,
      mTimeScale  |-> DefaultTimeScale ]

\* sin and cos of an angle in whole degrees, exact at the quadrant angles;
\* the 3D thrust path is only driven at those.
Quadrant(d) == ((d % 360) + 360) % 360
SinDeg(d) == CASE Quadrant(d) = 0 -> 0 [] Quadrant(d) = 90 -> 1
               [] Quadrant(d) = 180 -> 0 [] Quadrant(d) = 270 -> 0 - 1
CosDeg(d) == CASE Quadrant(d) = 0 -> 1 [] Quadrant(d) = 90 -> 0
               [] Quadrant(d) = 180 -> 0 - 1 [] Quadrant(d) = 270 -> 0

Grounded(l) == l.mLanded \/ l.mCrashed

\* ApplyGravity without the landed / crashed early return.
ApplyGravity_Always(ph, l, deltaTime) ==
    [l EXCEPT !.mVelocity[2] = @ + ph.mGravity * deltaTime * GravityFactor]

\* Physics::ApplyGravity(lander, deltaTime)
ApplyGravity(ph, l, deltaTime) ==
    IF Grounded(l) THEN l
    ELSE [l EXCEPT !.mVelocity[2] = @ + ph.mGravity * deltaTime * GravityFactor]

\* ApplyThrust whose full thrust is stronger than gravity (the gravity
\* scale in place of the thrust constant, doubled).
ApplyThrust_Strong(ph, l, deltaTime) ==
    IF Grounded(l) \/ ~l.mThrustActive THEN l
    ELSE LET thrustForce == (2 * GravityFactor * ph.mGravity * l.mThrustLevel) \div 10
         IN  IF ~ph.m3DMode
             THEN [l EXCEPT !.mVelocity[2] = @ - thrustForce * deltaTime]
             ELSE [l EXCEPT
                     !.mVelocity[1] = @ - SinDeg(l.mRotation[3]) * thrustForce * deltaTime,
                     !.mVelocity[2] = @ - CosDeg(l.mRotation[3]) * thrustForce * deltaTime,
                     !.mVelocity[3] = @ - SinDeg(l.mRotation[1]) * thrustForce * deltaTime]

\* Physics::ApplyThrust(lander, deltaTime)
ApplyThrust(ph, l, deltaTime) ==
    IF Grounded(l) \/ ~l.mThrustActive THEN l
    ELSE LET thrustForce == ThrustFactor * ph.mGravity * l.mThrustLevel
         IN  IF ~ph.m3DMode
             THEN [l EXCEPT !.mVelocity[2] = @ - thrustForce * deltaTime]
             ELSE [l EXCEPT
                     !.mVelocity[1] = @ - SinDeg(l.mRotation[3]) * thrustForce * deltaTime,
                     !.mVelocity[2] = @ - CosDeg(l.mRotation[3]) * thrustForce * deltaTime,
                     !.mVelocity[3] = @ - SinDeg(l.mRotation[1]) * thrustForce * deltaTime]

\* Physics::ApplyDrag(lander, deltaTime); air density in hundredths.
\* 0.5 * density * speed * |speed| * 0.5 * area * deltaTime / mass
DragStep(ph, speed, deltaTime) ==
    IF speed = 0 THEN 0
    ELSE TruncDiv(TruncDiv(speed * Abs(speed), 100000)
                    * ph.mAirDensity * DragCoefficient * LanderWidth * LanderHeight * deltaTime,
                  2 * 10 * 100 * 10 * LanderMass)

ApplyDrag(ph, l, deltaTime) ==
    IF Grounded(l) \/ ph.mAirDensity <= 0 THEN l
    ELSE [l EXCEPT
            !.mVelocity[1] = @ - DragStep(ph, @, deltaTime),
            !.mVelocity[2] = @ - DragStep(ph, @, deltaTime),
            !.mVelocity[3] = IF ph.m3DMode THEN @ - DragStep(ph, @, deltaTime) ELSE @]

\* Forward-Euler step of Update2D; SetPosition(newX, newY) leaves z to the
\* declaration's default, 0.
Integrate2D(l, deltaTime) ==
    IF Grounded(l) THEN l
    ELSE SetPosition(l, l.mPosition[1] + l.mVelocity[1] * deltaTime,
                        l.mPosition[2] + l.mVelocity[2] * deltaTime, 0)

\* Forward-Euler step of Update3D.
Integrate3D(l, deltaTime) ==
    IF Grounded(l) THEN l
    ELSE SetPosition(l, l.mPosition[1] + l.mVelocity[1] * deltaTime,
                        l.mPosition[2] + l.mVelocity[2] * deltaTime,
                        l.mPosition[3] + l.mVelocity[3] * deltaTime)

\* Resolve2D with the two branches of the landing test exchanged.
Resolve2D_Inverted(segs, l, collisionHeight) ==
    LET snapped == SetPosition(l, l.mPosition[1],
                               collisionHeight - (LanderHeight * PosScale) \div 2, 0)
        valid   == IsValidLanding2D(segs, snapped)
    IN  [ lander |-> IF valid
                     THEN [snapped EXCEPT !.mCrashed = TRUE, !.mVelocity = <<0, 0, @[3]>>]
                     ELSE [snapped EXCEPT !.mLanded = TRUE, !.mVelocity = <<0, 0, @[3]>>],
          ret |-> TRUE, valid |-> valid ]

\* Outcome of a detected collision in CheckCollisions2D: snap, classify,
\* stop the x and y motion.  valid records what IsValidLanding2D answered.
Resolve2D(segs, l, collisionHeight) ==
    LET snapped == SetPosition(l, l.mPosition[1],
                               collisionHeight - (LanderHeight * PosScale) \div 2, 0)
        valid   == IsValidLanding2D(segs, snapped)
    IN  [ lander |-> IF valid
                     THEN [snapped EXCEPT !.mLanded = TRUE, !.mVelocity = <<0, 0, @[3]>>]
                     ELSE [snapped EXCEPT !.mCrashed = TRUE, !.mVelocity = <<0, 0, @[3]>>],
          ret |-> TRUE, valid |-> valid ]

\* Result of a collision check that changes nothing and returns false.
NoCollision(l) == [lander |-> l, ret |-> FALSE, valid |-> FALSE]

\* CheckCollisions2D without the "already landed or crashed" early return.
CheckCollisions2D_NoSkip(ph, ter, l) ==
    IF ~ph.mLander \/ ~ph.mTerrain THEN NoCollision(l)
    ELSE LET c == CheckCollision2D(ter.mSegments2D, l)
         IN  IF c.hit THEN Resolve2D(ter.mSegments2D, l, c.collisionHeight)
             ELSE NoCollision(l)

\* Physics::CheckCollisions2D(): the lander afterwards, the returned flag
\* and the landing verdict.
CheckCollisions2D(ph, ter, l) ==
    IF ~ph.mLander \/ ~ph.mTerrain THEN NoCollision(l)
    ELSE IF Grounded(l) THEN NoCollision(l)
    ELSE LET c == CheckCollision2D(ter.mSegments2D, l)
         IN  IF c.hit THEN Resolve2D(ter.mSegments2D, l, c.collisionHeight)
             ELSE NoCollision(l)

\* Outcome of a detected collision in CheckCollisions3D.
Resolve3D(tris, l, collisionHeight) ==
    LET snapped == SetPosition(l, l.mPosition[1],
                               collisionHeight - (LanderHeight * PosScale) \div 2,
                               l.mPosition[3])
        valid   == IsValidLanding3D(tris, snapped)
    IN  [ lander |-> IF valid
                     THEN [snapped EXCEPT !.mLanded = TRUE, !.mVelocity = <<0, 0, 0>>]
                     ELSE [snapped EXCEPT !.mCrashed = TRUE, !.mVelocity = <<0, 0, 0>>],
          ret |-> TRUE, valid |-> valid ]

\* Physics::CheckCollisions3D()
CheckCollisions3D(ph, ter, l) ==
    IF ~ph.mLander \/ ~ph.mTerrain THEN NoCollision(l)
    ELSE IF Grounded(l) THEN NoCollision(l)
    ELSE LET c == CheckCollision3D(ter.mTriangles3D, l)
         IN  IF c.hit THEN Resolve3D(ter.mTriangles3D, l, c.collisionHeight)
             ELSE NoCollision(l)

\* Physics::CheckCollisions()
CheckCollisions(ph, ter, l) ==
    IF ph.m3DMode THEN CheckCollisions3D(ph, ter, l) ELSE CheckCollisions2D(ph, ter, l)

\* Update2D that asks the terrain before it integrates the position.
Update2D_CollideFirst(ph, ter, l, deltaTime) ==
    IF ~ph.mLander \/ ~ph.mTerrain THEN NoCollision(l)
    ELSE LET scaledDeltaTime == deltaTime * ph.mTimeScale
             forced == ApplyDrag(ph, ApplyThrust(ph, ApplyGravity(ph, l, scaledDeltaTime),
                                                 scaledDeltaTime), scaledDeltaTime)
             rep == CheckCollisions2D(ph, ter, forced)
         IN  [rep EXCEPT !.lander = Integrate2D(@, deltaTime)]

\* Update2D that integrates the position before it applies the forces.
Update2D_IntegrateFirst(ph, ter, l, deltaTime) ==
    IF ~ph.mLander \/ ~ph.mTerrain THEN NoCollision(l)
    ELSE LET scaledDeltaTime == deltaTime * ph.mTimeScale
             moved == Integrate2D(l, deltaTime)
         IN  CheckCollisions2D(ph, ter,
                 ApplyDrag(ph, ApplyThrust(ph, ApplyGravity(ph, moved, scaledDeltaTime),
                                           scaledDeltaTime), scaledDeltaTime))

\* Update2D that tests the lander only, not the terrain.
Update2D_NoTerrainTest(ph, ter, l, deltaTime) ==
    IF ~ph.mLander THEN NoCollision(l)
    ELSE LET scaledDeltaTime == deltaTime * ph.mTimeScale
             forced == ApplyDrag(ph, ApplyThrust(ph, ApplyGravity(ph, l, scaledDeltaTime),
                                                 scaledDeltaTime), scaledDeltaTime)
         IN  CheckCollisions2D(ph, ter, Integrate2D(forced, deltaTime))

\* Physics::Update2D(deltaTime): forces use the scaled step, the position
\* integration the unscaled one; the result is that of the closing
\* CheckCollisions2D.
Update2D(ph, ter, l, deltaTime) ==
    IF ~ph.mLander \/ ~ph.mTerrain THEN NoCollision(l)
    ELSE LET scaledDeltaTime == deltaTime * ph.mTimeScale
             forced == ApplyDrag(ph, ApplyThrust(ph, ApplyGravity(ph, l, scaledDeltaTime),
                                                 scaledDeltaTime), scaledDeltaTime)
         IN  CheckCollisions2D(ph, ter, Integrate2D(forced, deltaTime))

\* Physics::Update3D(deltaTime)
Update3D(ph, ter, l, deltaTime) ==
    IF ~ph.mLander \/ ~ph.mTerrain THEN NoCollision(l)
    ELSE LET forced == ApplyDrag(ph, ApplyThrust(ph, ApplyGravity(ph, l, deltaTime),
                                                 deltaTime), deltaTime)
         IN  CheckCollisions3D(ph, ter, Integrate3D(forced, deltaTime))

\* Physics::Update(deltaTime)
PhysicsUpdate(ph, ter, l, deltaTime) ==
    IF ph.m3DMode THEN Update3D(ph, ter, l, deltaTime) ELSE Update2D(ph, ter, l, deltaTime)

\* ============================= Game (Game.cpp) ==========================
ScoreScale == 100

\* Game::Game(); mLander stands for the component pointers, which
\* Initialize creates together and Shutdown releases together.  killed is
\* not a field of Game: it records that a call on this game dereferenced a
\* null component pointer.  That is undefined behaviour; a null unique_ptr
\* holds address 0, the access is a load or a store through it, and the
\* builds end the process with SIGSEGV inside the call, so that no field
\* can be read afterwards.
GameNew ==
    [ mGameState   |-> "READY",
      mDifficulty  |-> "NORMAL",
      m3DMode      |-> FALSE,
      mScore       |-> 0,
      mElapsedTime |-> 0,
      mFuelUsed    |-> 0,
      mIsRunning   |-> FALSE,
      mLander      |-> FALSE,
      killed       |-> FALSE ]

\* Terrain::Terrain(): no geometry yet.
TerrainNew == [ mSegments2D |-> <<>>, mTriangles3D |-> <<>> ]

\* The gravity SetDifficulty hands to Physics::SetGravity.
DifficultyGravity(d) ==
    CASE d = "EASY" -> GravityEasy
      [] d = "NORMAL" -> GravityNormal
      [] d = "HARD" -> GravityHard

\* What mTerrain->Generate2D(mWindowWidth, mWindowHeight) can leave in the
\* terrain, and what Generate3D(mWindowWidth, mWindowWidth, mWindowHeight) can.
Generated2D ==
    { [TerrainNew EXCEPT !.mSegments2D = sg] :
        sg \in Generate2D(WindowWidth, WindowHeight) }

Generated3D ==
    { [TerrainNew EXCEPT !.mTriangles3D = t] :
        t \in Generate3D(WindowWidth, WindowWidth, WindowHeight) }

\* The terrains Game::Initialize / Game::Reset can generate for the mode.
GenerateForMode(use3D) == IF use3D THEN Generated3D ELSE Generated2D

\* ResetGame going through the press-to-start state.
ResetGame_ToReady(g) ==
    [g EXCEPT !.mGameState = "READY", !.mScore = 0,
              !.mElapsedTime = 0, !.mFuelUsed = 0]

\* ResetGame that keeps the score of the previous attempt.
ResetGame_KeepScore(g) ==
    [g EXCEPT !.mGameState = "FLYING", !.mElapsedTime = 0, !.mFuelUsed = 0]

\* Game::Reset(), the game's own fields.
ResetGame(g) ==
    [g EXCEPT !.mGameState = "FLYING", !.mScore = 0,
              !.mElapsedTime = 0, !.mFuelUsed = 0]

\* Game::Reset(), the lander: Lander::Reset and the mode's start position.
ResetLander(g, l) ==
    IF g.m3DMode
    THEN SetPosition(LanderReset(l), (WindowWidth \div 2) * PosScale,
                     (WindowHeight \div 3) * PosScale, (WindowWidth \div 2) * PosScale)
    ELSE SetPosition(LanderReset(l), (WindowWidth \div 2) * PosScale,
                     ResetHeight * PosScale, 0)

\* LandingScore computed from the fuel burnt instead of the fuel left.
LandingScore_FuelBurnt(l) == ((mMaxFuel - l.mFuel) * 1000) \div (mMaxFuel \div ScoreScale)

\* Score of a landing: (fuel / max fuel) * 1000, in hundredths of a point.
LandingScore(l) == (l.mFuel * 1000) \div (mMaxFuel \div ScoreScale)

\* UpdateGame that stops the clock in the call that ends the flight.
UpdateGame_ClockStopsOnOutcome(g, l, deltaTime) ==
    IF g.mGameState # "FLYING" THEN g
    ELSE IF g.mLander /\ l.mLanded
         THEN [g EXCEPT !.mGameState = "LANDED", !.mScore = LandingScore(l)]
    ELSE IF g.mLander /\ l.mCrashed
         THEN [g EXCEPT !.mGameState = "CRASHED", !.mScore = 0]
    ELSE [g EXCEPT !.mElapsedTime = @ + deltaTime]

\* Game::Update(deltaTime), the game's fields given the lander after the
\* physics and lander updates.
UpdateGame(g, l, deltaTime) ==
    IF g.mGameState # "FLYING" THEN g
    ELSE LET judged ==
               IF ~g.mLander THEN g
               ELSE IF l.mLanded
                    THEN [g EXCEPT !.mGameState = "LANDED", !.mScore = LandingScore(l)]
               ELSE IF l.mCrashed
                    THEN [g EXCEPT !.mGameState = "CRASHED", !.mScore = 0]
               ELSE g
             timed == [judged EXCEPT !.mElapsedTime = @ + deltaTime]
         IN  \* the fall-time output reads mLander->GetPosition()[1]
             \* without a test of mLander, while the state is FLYING
             IF timed.mGameState = "FLYING" /\ ~g.mLander
             THEN [timed EXCEPT !.killed = TRUE]
             ELSE timed

\* UpdateLander without the test of the game state.
UpdateLander_AnyState(g, ph, ter, l, deltaTime) ==
    IF ~g.mLander THEN l
    ELSE LanderUpdate(PhysicsUpdate(ph, ter, l, deltaTime).lander, deltaTime)

\* Game::Update(deltaTime), the lander: Physics::Update, then Lander::Update.
UpdateLander(g, ph, ter, l, deltaTime) ==
    IF g.mGameState # "FLYING" \/ ~g.mLander THEN l
    ELSE LanderUpdate(PhysicsUpdate(ph, ter, l, deltaTime).lander, deltaTime)

\* Game::ProcessInput(), the lander, in state FLYING: thrust, then rotation.
InputLander(l, thrust, left, right) ==
    LET t == LanderApplyThrust(l, IF thrust THEN 10 ELSE 0)
        a == IF left THEN RotateLeft(t, RotateStep) ELSE t
    IN  IF right THEN RotateRight(a, RotateStep) ELSE a

\* The objects a Game owns, as one value: g the game's fields, l the
\* lander, ph the physics engine, ter the terrain.
World(g, l, ph, ter) == [g |-> g, l |-> l, ph |-> ph, ter |-> ter]

\* Game::Reset(): one outcome per terrain the generator can produce.  The
\* lander and the terrain are reset under a test of their pointers; the
\* closing output reads mLander->GetPosition() without one.
GameReset(w) ==
    IF ~w.g.mLander
    THEN { World([ResetGame(w.g) EXCEPT !.killed = TRUE], w.l, w.ph, w.ter) }
    ELSE { World(ResetGame(w.g), ResetLander(w.g, w.l), w.ph, t) :
             t \in GenerateForMode(w.g.m3DMode) }

\* SetDifficulty that sets the gravity and leaves the attempt running.
SetDifficulty_NoReset(w, d) ==
    { [w EXCEPT !.g.mDifficulty = d,
                !.ph.mGravity = DifficultyGravity(d),
                !.l = LanderApplyThrust(@, 0)] }

\* Game::SetDifficulty(difficulty): mPhysics->SetGravity and
\* mLander->ApplyThrust are called without a test of the pointers, right
\* after mDifficulty is stored.
SetDifficulty(w, d) ==
    IF ~w.g.mLander
    THEN { [w EXCEPT !.g.mDifficulty = d, !.g.killed = TRUE] }
    ELSE GameReset([w EXCEPT !.g.mDifficulty = d,
                             !.ph.mGravity = DifficultyGravity(d),
                             !.l = LanderApplyThrust(@, 0)])

\* Shutdown that also puts the game back in the press-to-start state.
Shutdown_ToReady(w) ==
    World([w.g EXCEPT !.mIsRunning = FALSE, !.mLander = FALSE, !.mGameState = "READY"],
          LanderNew, PhysicsNew, TerrainNew)

\* Game::Shutdown(): the components are released.
Shutdown(w) ==
    World([w.g EXCEPT !.mIsRunning = FALSE, !.mLander = FALSE],
          LanderNew, PhysicsNew, TerrainNew)

\* GameInitialize that marks the game as running before the renderer is
\* initialized.
GameInitialize_RunningEarly(w, rendererOk, openGL) ==
    LET g1 == [w.g EXCEPT !.m3DMode = (@ /\ openGL), !.mLander = TRUE, !.mIsRunning = TRUE]
    IN  IF ~rendererOk
        THEN { World(g1, LanderNew, PhysicsNew, TerrainNew) }
        ELSE GameReset(World(g1, LanderNew,
                             [PhysicsNew EXCEPT !.mLander = TRUE, !.mTerrain = TRUE],
                             TerrainNew))

\* Game::Initialize(): fresh components; rendererOk is the result of
\* Renderer::Initialize, openGL whether the build defines USE_OPENGL.
GameInitialize(w, rendererOk, openGL) ==
    LET g1 == [w.g EXCEPT !.m3DMode = (@ /\ openGL), !.mLander = TRUE]
    IN  IF ~rendererOk
        THEN { World(g1, LanderNew, PhysicsNew, TerrainNew) }
        ELSE { [r EXCEPT !.g.mIsRunning = TRUE] :
                 r \in GameReset(World(g1, LanderNew,
                                       [PhysicsNew EXCEPT !.mLander = TRUE, !.mTerrain = TRUE],
                                       TerrainNew)) }

\* Game::SetRenderingMode(use3D)
SetRenderingMode(w, use3D, rendererOk, openGL) ==
    IF w.g.m3DMode = use3D THEN {w}
    ELSE LET w1 == [w EXCEPT !.g.m3DMode = use3D]
         IN  IF w1.g.mIsRunning
             THEN GameInitialize(Shutdown(w1), rendererOk, openGL)
             ELSE {w1}

Keys == {"r", "ESCAPE", "1", "2", "3", "TAB"}

\* The difficulty OnKeyDown selects for the keys 1, 2 and 3.
KeyDifficulty(key) ==
    CASE key = "1" -> "EASY" [] key = "2" -> "NORMAL" [] key = "3" -> "HARD"

\* Game::OnKeyDown(keyCode)
OnKeyDown(w, key, rendererOk, openGL) ==
    CASE key = "r"      -> GameReset(w)
      [] key = "ESCAPE" -> { [w EXCEPT !.g.mIsRunning = FALSE] }
      [] key = "1"      -> SetDifficulty(w, "EASY")
      [] key = "2"      -> SetDifficulty(w, "NORMAL")
      [] key = "3"      -> SetDifficulty(w, "HARD")
      [] key = "TAB"    -> SetRenderingMode(w, ~w.g.m3DMode, rendererOk, openGL)
      [] OTHER          -> {w}

\* Fuel bookkeeping of ProcessInput: newFuel is a copy of originalFuel.
TrackFuelUsed(g, l) ==
    LET originalFuel == l.mFuel
        newFuel      == originalFuel
    IN  IF originalFuel > newFuel
        THEN [g EXCEPT !.mFuelUsed = @ + (originalFuel - newFuel)]
        ELSE g

\* Game::ProcessInput() after the input handler has polled; in is the
\* handler's flags.
ProcessInput(w, in) ==
    LET handled ==
          IF ~w.g.mLander THEN {w}
          ELSE IF w.g.mGameState = "READY"
               THEN { IF in.start THEN [w EXCEPT !.g.mGameState = "FLYING"] ELSE w }
          ELSE IF w.g.mGameState = "FLYING"
               THEN LET l1 == InputLander(w.l, in.thrust, in.left, in.right)
                    IN  { [w EXCEPT !.l = l1,
                                    !.g = IF in.thrust THEN TrackFuelUsed(@, l1) ELSE @] }
          ELSE IF in.reset THEN GameReset(w) ELSE {w}
    IN  { IF w.g.mLander /\ in.quit THEN [h EXCEPT !.g.mIsRunning = FALSE] ELSE h :
            h \in handled }

\* Game::Update(deltaTime)
GameUpdate(w, deltaTime) ==
    LET l1 == UpdateLander(w.g, w.ph, w.ter, w.l, deltaTime)
    IN  [w EXCEPT !.l = l1, !.g = UpdateGame(w.g, l1, deltaTime)]

\* ============================== state ===================================
\* game, lander, physics, terrain: the objects.  pc: where main / Game::Run
\* stands.  deltaTime: the step Run computed for the current frame.
\* frames: frames started (operations applied, in SpecAPI).  useOpenGL:
\* whether the build defines USE_OPENGL.  last: the operation that made the
\* latest step, for an update what the terrain answered, whether the step
\* ran Game::Reset, the key it delivered to OnKeyDown, and whether the
\* frame's tick difference was above the cap, and for a call made on the
\* lander or the engine directly the argument passed (history only).
VARIABLES game, lander, physics, terrain, pc, deltaTime, frames, useOpenGL, last

vars == <<game, lander, physics, terrain, pc, deltaTime, frames, useOpenGL, last>>

MaxFrames == 2

\* SDL_GetTicks() is an unsigned counter; the model reads it in steps of
\* 0.1 s and gives it TickModulus values, so that a reading can lie
\* below the one before (the counter wrapped).  The stored reading,
\* mLastFrameTime, only serves as the earlier operand of the difference:
\* the model does not keep it and lets it be any value of the counter.
TickModulus == 3
Ticks == 0 .. (TickModulus - 1)

\* Game::Run(): (currentTime - mLastFrameTime) in unsigned arithmetic.
TickGap(currentTime, lastFrameTime) == (currentTime - lastFrameTime) % TickModulus

\* Game::Run() without the cap on deltaTime.
CapDeltaTime_None(gap) == gap

\* Game::Run(): if (deltaTime > 0.1f) deltaTime = 0.1f.
CapDeltaTime(gap) == IF gap > DeltaTimeCap THEN DeltaTimeCap ELSE gap

Cur == World(game, lander, physics, terrain)

\* Where main stands after a call on the game: next, unless the call ended
\* the process.
Continue(next) == IF game'.killed THEN "killed" ELSE next

Becomes(w) ==
    /\ game' = w.g
    /\ lander' = w.l
    /\ physics' = w.ph
    /\ terrain' = w.ter

Did(op, hit, valid, reset) ==
    [op |-> op, hit |-> hit, valid |-> valid, reset |-> reset, key |-> "none",
     capped |-> FALSE, arg |-> 0]

Inputs ==
    [start : BOOLEAN, thrust : BOOLEAN, left : BOOLEAN, right : BOOLEAN,
     reset : BOOLEAN, quit : BOOLEAN]

\* After Game::Game().
Init ==
    /\ game = GameNew
    /\ lander = LanderNew
    /\ physics = PhysicsNew
    /\ terrain = TerrainNew
    /\ pc = "constructed"
    /\ deltaTime = 0
    /\ frames = 0
    /\ useOpenGL \in BOOLEAN
    /\ last = Did("Game", FALSE, FALSE, FALSE)

\* main: Game::Initialize(); "aborted" stands for its false return, "loop"
\* for its true return followed by Game::Run(), whose entry test then passes.
Initialize ==
    /\ pc = "constructed"
    /\ \E ok \in BOOLEAN :
         /\ \E w \in GameInitialize(Cur, ok, useOpenGL) : Becomes(w)
         /\ pc' = IF ok THEN "loop" ELSE "aborted"
         /\ last' = Did("Initialize", FALSE, FALSE, ok)
    /\ UNCHANGED <<deltaTime, frames, useOpenGL>>

\* Game::Run(): loop test, tick reading and the cap on deltaTime.
FrameStart ==
    /\ pc = "loop"
    /\ game.mIsRunning
    /\ frames < MaxFrames
    /\ \E gap \in { TickGap(currentTime, lastFrameTime) :
                       currentTime \in Ticks, lastFrameTime \in Ticks } :
             /\ deltaTime' = CapDeltaTime(gap)
             /\ last' = [Did("FrameStart", FALSE, FALSE, FALSE)
                           EXCEPT !.capped = (gap > DeltaTimeCap)]
    /\ frames' = frames + 1
    /\ pc' = "input"
    /\ UNCHANGED <<game, lander, physics, terrain, useOpenGL>>

\* Game::Run() called although Initialize returned false: the entry test
\* on mIsRunning decides whether the loop is entered.
RunEntry ==
    /\ pc = "aborted"
    /\ pc' = IF game.mIsRunning THEN "loop" ELSE "exited"
    /\ last' = Did("Run", FALSE, FALSE, FALSE)
    /\ UNCHANGED <<game, lander, physics, terrain, deltaTime, frames, useOpenGL>>

\* Game::Run(): the loop test fails.
RunExit ==
    /\ pc = "loop"
    /\ ~game.mIsRunning
    /\ pc' = "exited"
    /\ last' = Did("RunExit", FALSE, FALSE, FALSE)
    /\ UNCHANGED <<game, lander, physics, terrain, deltaTime, frames, useOpenGL>>

\* Game::ProcessInput(), first half: InputHandler::ProcessInput() polls the
\* devices and delivers at most one key press to Game::OnKeyDown.
FramePoll ==
    /\ pc = "input"
    /\ \E key \in Keys \cup {"none"} :
         \E ok \in (IF key = "TAB" THEN BOOLEAN ELSE {TRUE}) :
           /\ \E w \in OnKeyDown(Cur, key, ok, useOpenGL) : Becomes(w)
           /\ last' = [Did(IF key = "none" THEN "Poll" ELSE "OnKeyDown", FALSE, FALSE,
                           \/ key \in {"r", "1", "2", "3"}
                           \/ key = "TAB" /\ game.mIsRunning /\ ok)
                         EXCEPT !.key = key]
    /\ pc' = Continue("flags")
    /\ UNCHANGED <<deltaTime, frames, useOpenGL>>

\* The flag combinations that can make a difference in game state gs.
InputsFor(gs) ==
    { in \in Inputs :
        /\ in.start => gs = "READY"
        /\ (in.thrust \/ in.left \/ in.right) => gs = "FLYING"
        /\ in.reset => gs \in {"LANDED", "CRASHED"} }

\* FrameInput of a loop that goes from input straight to rendering.
FrameInput_SkipUpdate ==
    /\ pc = "flags"
    /\ \E in \in InputsFor(game.mGameState) :
         /\ \E w \in ProcessInput(Cur, in) : Becomes(w)
         /\ last' = Did("ProcessInput", FALSE, FALSE,
                        in.reset /\ game.mLander /\ game.mGameState \in {"LANDED", "CRASHED"})
    /\ pc' = Continue("render")
    /\ UNCHANGED <<deltaTime, frames, useOpenGL>>

\* Game::ProcessInput(), second half: the flags are acted on.
FrameInput ==
    /\ pc = "flags"
    /\ \E in \in InputsFor(game.mGameState) :
         /\ \E w \in ProcessInput(Cur, in) : Becomes(w)
         /\ last' = Did("ProcessInput", FALSE, FALSE,
                        in.reset /\ game.mLander /\ game.mGameState \in {"LANDED", "CRASHED"})
    /\ pc' = Continue("update")
    /\ UNCHANGED <<deltaTime, frames, useOpenGL>>

\* Game::Update(deltaTime)
FrameUpdate ==
    /\ pc = "update"
    /\ Becomes(GameUpdate(Cur, deltaTime))
    /\ LET ran == game.mGameState = "FLYING" /\ game.mLander
           rep == PhysicsUpdate(physics, terrain, lander, deltaTime)
       IN  last' = Did("Update", ran /\ rep.ret, ran /\ rep.valid, FALSE)
    /\ pc' = Continue("render")
    /\ UNCHANGED <<deltaTime, frames, useOpenGL>>

\* Game::Render(): draws, changes nothing of the simulation.
FrameRender ==
    /\ pc = "render"
    /\ pc' = "loop"
    /\ last' = Did("Render", FALSE, FALSE, FALSE)
    /\ UNCHANGED <<game, lander, physics, terrain, deltaTime, frames, useOpenGL>>

Next ==
    \/ Initialize
    \/ RunEntry
    \/ FrameStart
    \/ RunExit
    \/ FramePoll
    \/ FrameInput
    \/ FrameUpdate
    \/ FrameRender

Spec == Init /\ [][Next]_vars

\* main never calls Reset, SetDifficulty or a flying Update on a game whose
\* components are missing: the loop only runs after Initialize created
\* them, and SetRenderingMode recreates them right after its Shutdown.
NotKilled == ~game.killed /\ pc # "killed"

\* ===================== the components driven directly ===================
\* The public operations of Lander and Physics called in any order on one
\* lander, one physics engine and one terrain, as a test harness or another
\* caller may (Game only ever passes thrust 0 or 1, rotation 2 and steps of
\* at most the cap).  frames counts the updates that moved the lander since
\* the last Lander::Reset.
MaxMoves == 2
MaxRotation == 360
CoordLimit == 2000 * PosScale
ApiDeltaTimes == {0, 1}
LanderDeltaTimes == {500}
ThrustAmounts == {0, 10}
RotateAmounts == {90}

\* A Lander::Update of dt keeps every coordinate within the modelled range.
LanderStepFits(l, dt) ==
    \A i \in 1..3 :
        Abs(l.mVelocity[i]) <= (CoordLimit - Abs(l.mPosition[i])) \div Max(dt, 1)

\* A Physics::Update of dt does: the velocity gains at most the gravity
\* term of the strongest gravity before the position is integrated.
PhysicsStepFits(l, dt) ==
    \A i \in 1..3 :
        Abs(l.mVelocity[i]) + dt * GravityHard * GravityFactor
            <= (CoordLimit - Abs(l.mPosition[i])) \div Max(dt, 1)

\* The update from l to l2 is within the bound on moving updates.
MoveAllowed(l, l2) ==
    /\ l2.mPosition # l.mPosition => frames < MaxMoves
    /\ frames' = IF l2.mPosition # l.mPosition THEN frames + 1 ELSE frames

ApiStep(op, arg) ==
    /\ pc = "api"
    /\ last' = [Did(op, FALSE, FALSE, FALSE) EXCEPT !.arg = arg]
    /\ UNCHANGED <<game, pc, deltaTime, useOpenGL>>

\* Where the caller has put the lander with SetPosition before the first
\* call: nowhere (the constructor's origin); for a 3D engine, where
\* thrust can move the lander sideways, at reset height with the
\* footprint's right edge on the grid line between the first two cells;
\* for a 2D engine with the bottom edge level with the highest terrain.
StartPositions(mode) ==
    { <<0, 0, 0>>,
      IF mode
      THEN <<(WindowWidth \div NumCells - LanderWidth \div 2) * PosScale,
             ResetHeight * PosScale, 0>>
      ELSE <<0, (SetMax(TerrainLevels) + LanderHeight \div 2) * PosScale, 0>> }

\* A lander, a terrain and a physics engine as Game::Initialize creates
\* them, without the game.  The engine's mode is the caller's choice, and
\* so are the lander's position and whether RegisterLander and
\* RegisterTerrain have been called; a registered terrain has been
\* generated for the engine's mode.
InitAPI ==
    /\ game = GameNew
    /\ \E mode \in BOOLEAN, hasLander \in BOOLEAN, hasTerrain \in BOOLEAN :
         /\ lander \in { SetPosition(LanderNew, p[1], p[2], p[3]) :
                            p \in StartPositions(mode) }
         /\ physics = [PhysicsNew EXCEPT !.m3DMode = mode, !.mLander = hasLander,
                                         !.mTerrain = hasTerrain]
         /\ terrain \in (IF hasTerrain THEN GenerateForMode(mode) ELSE {TerrainNew})
    /\ pc = "api"
    /\ deltaTime = 0
    /\ frames = 0
    /\ useOpenGL = TRUE
    /\ last = Did("Game", FALSE, FALSE, FALSE)

\* Physics::Update(deltaTime)
ApiPhysicsUpdate ==
    /\ pc = "api"
    /\ \E dt \in ApiDeltaTimes :
         /\ PhysicsStepFits(lander, dt)
         /\ LET rep == PhysicsUpdate(physics, terrain, lander, dt)
            IN  /\ lander' = rep.lander
                /\ MoveAllowed(lander, rep.lander)
                /\ last' = [Did("PhysicsUpdate", rep.ret, rep.valid, FALSE)
                              EXCEPT !.arg = dt]
    /\ UNCHANGED <<game, physics, terrain, pc, deltaTime, useOpenGL>>

\* Physics::CheckCollisions()
ApiCheckCollisions ==
    /\ pc = "api"
    /\ LET rep == CheckCollisions(physics, terrain, lander)
       IN  /\ lander' = rep.lander
           /\ last' = Did("CheckCollisions", rep.ret, rep.valid, FALSE)
    /\ UNCHANGED <<game, physics, terrain, pc, deltaTime, frames, useOpenGL>>

\* Lander::Update(deltaTime)
ApiLanderUpdate ==
    /\ \E dt \in LanderDeltaTimes :
         /\ ApiStep("LanderUpdate", dt)
         /\ LanderStepFits(lander, dt)
         /\ lander' = LanderUpdate(lander, dt)
         /\ MoveAllowed(lander, LanderUpdate(lander, dt))
    /\ UNCHANGED <<physics, terrain>>

\* Lander::ApplyThrust(amount)
ApiApplyThrust ==
    /\ \E amount \in ThrustAmounts :
         /\ ApiStep("ApplyThrust", amount)
         /\ lander' = LanderApplyThrust(lander, amount)
    /\ UNCHANGED <<physics, terrain, frames>>

\* Lander::RotateLeft(amount)
ApiRotateLeft ==
    /\ \E amount \in RotateAmounts :
         /\ ApiStep("RotateLeft", amount)
         /\ lander' = RotateLeft(lander, amount)
         /\ Abs(lander'.mRotation[3]) <= MaxRotation
    /\ UNCHANGED <<physics, terrain, frames>>

\* Lander::RotateRight(amount)
ApiRotateRight ==
    /\ \E amount \in RotateAmounts :
         /\ ApiStep("RotateRight", amount)
         /\ lander' = RotateRight(lander, amount)
         /\ Abs(lander'.mRotation[3]) <= MaxRotation
    /\ UNCHANGED <<physics, terrain, frames>>

\* Lander::Reset()
ApiLanderReset ==
    /\ ApiStep("LanderReset", 0)
    /\ lander' = LanderReset(lander)
    /\ frames' = 0
    /\ UNCHANGED <<physics, terrain>>

NextAPI ==
    \/ ApiPhysicsUpdate
    \/ ApiCheckCollisions
    \/ ApiLanderUpdate
    \/ ApiApplyThrust
    \/ ApiRotateLeft
    \/ ApiRotateRight
    \/ ApiLanderReset

SpecAPI == InitAPI /\ [][NextAPI]_vars

\* ========================= the lander on its own ========================
\* Lander's public operations called in any order with arguments a caller
\* may pass, in and out of the documented ranges.  No physics engine acts,
\* so the velocity stays zero.  Steps are non-negative, as Run computes
\* them from an unsigned tick difference.
BurnDeltaTimes == {0, 250, 500}
AnyThrustAmounts == {0 - 5, 0, 5, 10, 25}
AnyRotateAmounts == {90, 450, 0 - 90}

LanderStep(op, arg) ==
    /\ pc = "lander"
    /\ last' = [Did(op, FALSE, FALSE, FALSE) EXCEPT !.arg = arg]
    /\ UNCHANGED <<game, physics, terrain, pc, deltaTime, frames, useOpenGL>>

\* After Lander::Lander().
InitLander ==
    /\ game = GameNew
    /\ lander = LanderNew
    /\ physics = PhysicsNew
    /\ terrain = TerrainNew
    /\ pc = "lander"
    /\ deltaTime = 0
    /\ frames = 0
    /\ useOpenGL = TRUE
    /\ last = Did("Lander", FALSE, FALSE, FALSE)

\* Lander::Update(deltaTime)
CallUpdate ==
    \E dt \in BurnDeltaTimes :
        /\ LanderStep("LanderUpdate", dt)
        /\ lander' = LanderUpdate(lander, dt)

\* Lander::ApplyThrust(amount)
CallApplyThrust ==
    \E amount \in AnyThrustAmounts :
        /\ LanderStep("ApplyThrust", amount)
        /\ lander' = LanderApplyThrust(lander, amount)

\* Lander::RotateLeft(amount)
CallRotateLeft ==
    \E amount \in AnyRotateAmounts :
         /\ LanderStep("RotateLeft", amount)
         /\ lander' = RotateLeft(lander, amount)
         /\ Abs(lander'.mRotation[3]) <= MaxRotation

\* Lander::RotateRight(amount)
CallRotateRight ==
    \E amount \in AnyRotateAmounts :
         /\ LanderStep("RotateRight", amount)
         /\ lander' = RotateRight(lander, amount)
         /\ Abs(lander'.mRotation[3]) <= MaxRotation

\* Lander::Reset()
CallReset ==
    /\ LanderStep("LanderReset", 0)
    /\ lander' = LanderReset(lander)

NextLander ==
    \/ CallUpdate
    \/ CallApplyThrust
    \/ CallRotateLeft
    \/ CallRotateRight
    \/ CallReset

SpecLander == InitLander /\ [][NextLander]_vars

\* ==================== the 2D engine under its settings ==================
\* A 2D physics engine with each difficulty's gravity and with the time
\* scale at and above its default, a registered lander at the reset
\* position and a terrain that is registered or not; the lander's thrust
\* is set to none, half and full, and Physics::Update is called with
\* steps 0 and 0.1.  frames counts the updates with a positive step.
Gravities == {GravityEasy, GravityNormal, GravityHard}
TimeScales == {DefaultTimeScale, 2 * DefaultTimeScale}
ForceThrustAmounts == {0, 5, 10}

InitForces ==
    /\ game = GameNew
    /\ lander = SetPosition(LanderReset(LanderNew), (WindowWidth \div 2) * PosScale,
                            ResetHeight * PosScale, 0)
    /\ \E gravity \in Gravities, timeScale \in TimeScales, hasTerrain \in BOOLEAN :
         /\ physics = [PhysicsNew EXCEPT !.mGravity = gravity, !.mTimeScale = timeScale,
                                         !.mLander = TRUE, !.mTerrain = hasTerrain]
         /\ terrain \in (IF hasTerrain THEN Generated2D ELSE {TerrainNew})
    /\ pc = "forces"
    /\ deltaTime = 0
    /\ frames = 0
    /\ useOpenGL = TRUE
    /\ last = Did("Physics", FALSE, FALSE, FALSE)

\* Lander::ApplyThrust(amount)
ForcesApplyThrust ==
    /\ pc = "forces"
    /\ \E amount \in ForceThrustAmounts : lander' = LanderApplyThrust(lander, amount)
    /\ last' = Did("ApplyThrust", FALSE, FALSE, FALSE)
    /\ UNCHANGED <<game, physics, terrain, pc, deltaTime, frames, useOpenGL>>

\* Physics::Update(deltaTime)
ForcesUpdate ==
    /\ pc = "forces"
    /\ \E dt \in ApiDeltaTimes :
         /\ dt > 0 => frames < MaxMoves
         /\ frames' = IF dt > 0 THEN frames + 1 ELSE frames
         /\ deltaTime' = dt
         /\ LET rep == PhysicsUpdate(physics, terrain, lander, dt)
            IN  /\ lander' = rep.lander
                /\ last' = Did("PhysicsUpdate", rep.ret, rep.valid, FALSE)
    /\ UNCHANGED <<game, physics, terrain, pc, useOpenGL>>

NextForces ==
    \/ ForcesApplyThrust
    \/ ForcesUpdate

SpecForces == InitForces /\ [][NextForces]_vars

\* ============================== properties ==============================

\* C1: in every reachable state the lander's landed and crashed flags are
\* never both true, whatever Physics::Update, CheckCollisions and Reset
\* calls were made.
C1_FlagsExclusive == ~(lander.mLanded /\ lander.mCrashed)

\* A landed lander on which a further update or collision check was made.
C1_Witness ==
    /\ lander.mLanded
    /\ last.op \in {"PhysicsUpdate", "CheckCollisions"}
    /\ ~last.hit

\* C2: a Game::Update moves the lander (and the game) from flying to landed
\* exactly when the terrain reported a collision in that call and
\* IsValidLanding answered true, to crashed exactly when it reported a
\* collision and IsValidLanding answered false; with no collision reported
\* the flags and the game state stay as they were.
C2_Transitions ==
    [][ last'.op = "Update" =>
          /\ (~lander.mLanded /\ lander'.mLanded) <=> (last'.hit /\ last'.valid)
          /\ (game.mGameState = "FLYING" /\ game'.mGameState = "LANDED")
                <=> (last'.hit /\ last'.valid)
          /\ (~lander.mCrashed /\ lander'.mCrashed) <=> (last'.hit /\ ~last'.valid)
          /\ (game.mGameState = "FLYING" /\ game'.mGameState = "CRASHED")
                <=> (last'.hit /\ ~last'.valid)
          /\ ~last'.hit =>
                /\ lander'.mLanded = lander.mLanded
                /\ lander'.mCrashed = lander.mCrashed
                /\ game'.mGameState = game.mGameState ]_vars

\* An Update in which the terrain reported a collision that was a valid
\* landing.
C2_Witness ==
    /\ last.op = "Update"
    /\ last.hit /\ last.valid
    /\ game.mGameState = "LANDED"
    /\ lander.mLanded

\* C3: once the lander is landed or crashed every velocity component is
\* exactly zero, and stays zero under further updates and thrust or
\* rotation input, until Reset.
C3_VelocityFrozen == Grounded(lander) => lander.mVelocity = <<0, 0, 0>>

\* A grounded lander with thrust switched on, after a further
\* Physics::Update.
C3_Witness ==
    /\ Grounded(lander)
    /\ lander.mThrustActive
    /\ last.op = "PhysicsUpdate"
    /\ ~last.hit

\* C4: LANDED and CRASHED are terminal until Reset: from either, a step
\* leaves the game state as it is, or it is a step that ran Game::Reset
\* (key r, a difficulty key, a mode re-initialization, the reset input) and
\* leads to FLYING with the score, the clock and the lander reset.
C4_TerminalUntilReset ==
    [][ game.mGameState \in {"LANDED", "CRASHED"} =>
          \/ game'.mGameState = game.mGameState
          \/ /\ game'.mGameState = "FLYING"
             /\ last'.reset
             /\ last'.op \in {"OnKeyDown", "ProcessInput"}
             /\ game'.mScore = 0
             /\ game'.mElapsedTime = 0
             /\ ~lander'.mLanded /\ ~lander'.mCrashed
             /\ lander'.mFuel = mMaxFuel ]_vars

\* A Game::Update made while the game was LANDED or CRASHED.
C4_Witness ==
    /\ game.mGameState \in {"LANDED", "CRASHED"}
    /\ last.op = "Update"
    /\ ~last.hit

\* C5: at the end of every Game::Update and after every Reset the game
\* state is LANDED exactly when the lander's landed flag is set, CRASHED
\* exactly when its crashed flag is set, and FLYING or READY only when
\* both are clear.
C5_StateDerivedFromFlags ==
    (last.op = "Update" \/ last.reset) =>
        /\ game.mGameState = "LANDED" <=> lander.mLanded
        /\ game.mGameState = "CRASHED" <=> lander.mCrashed
        /\ game.mGameState \in {"FLYING", "READY"} => ~Grounded(lander)

\* C6: the fuel stays within 0..maxFuel; only Lander::Reset raises it; only
\* Lander::Update lowers it, with thrust active by
\* consumptionRate * thrustLevel * deltaTime for the deltaTime passed,
\* clamped at 0; no other operation changes it.
C6_FuelMonotone ==
    [][ /\ lander'.mFuel >= 0 /\ lander'.mFuel <= mMaxFuel
        /\ last'.op # "LanderReset" => lander'.mFuel <= lander.mFuel
        /\ last'.op \notin {"LanderReset", "LanderUpdate"} => lander'.mFuel = lander.mFuel
        /\ last'.op = "LanderUpdate" =>
             IF lander.mThrustActive
             THEN LET burn == FuelConsumptionRate * lander.mThrustLevel * last'.arg
                  IN  lander'.mFuel = IF burn >= lander.mFuel THEN 0 ELSE lander.mFuel - burn
             ELSE lander'.mFuel = lander.mFuel ]_vars

\* The tank ran dry in a Lander::Update of 50 s: fuel exactly 0, thrust
\* switched off with its level still set.
C6_Witness ==
    /\ last.op = "LanderUpdate"
    /\ last.arg = 500
    /\ lander.mFuel = 0
    /\ lander.mThrustLevel > 0
    /\ ~lander.mThrustActive

\* C7: whenever thrust is active the lander has fuel, so Physics::ApplyThrust
\* never accelerates a lander whose tank is empty.
C7_ThrustNeedsFuel == lander.mThrustActive => lander.mFuel > 0

\* A Physics::Update made on a flying lander with an empty tank after
\* thrust had been requested.
C7_Witness ==
    /\ last.op = "PhysicsUpdate"
    /\ lander.mFuel = 0
    /\ ~Grounded(lander)
    /\ lander.mVelocity[2] > 0

\* C8: Lander::ApplyThrust(level) stores a level in [0,1] for any argument
\* (0 for arguments below 0, 1 for arguments above 1, the argument
\* otherwise), thrust is active exactly when the stored level is above 0,
\* and with an empty tank the level is 0 and thrust inactive.
C8_ThrustClamped ==
    [][ last'.op = "ApplyThrust" =>
          /\ lander'.mThrustLevel >= 0 /\ lander'.mThrustLevel <= 10
          /\ lander'.mThrustActive <=> lander'.mThrustLevel > 0
          /\ lander.mFuel = 0 => lander'.mThrustLevel = 0 /\ ~lander'.mThrustActive
          /\ lander.mFuel > 0 =>
               lander'.mThrustLevel =
                   IF last'.arg < 0 THEN 0
                   ELSE IF last'.arg > 10 THEN 10 ELSE last'.arg ]_vars

\* ApplyThrust(2.5) called on a lander with fuel: the level stored is 1.
C8_Witness ==
    /\ last.op = "ApplyThrust"
    /\ last.arg = 25
    /\ lander.mFuel > 0
    /\ lander.mThrustLevel = 10
    /\ lander.mThrustActive

\* ApplyThrust(-0.5) on a lander with fuel, and ApplyThrust(1) on a lander
\* whose tank is empty: the level stored is 0 and thrust is off.
C8_WitnessBelow ==
    /\ last.op = "ApplyThrust"
    /\ last.arg = 0 - 5
    /\ lander.mFuel > 0
    /\ lander.mThrustLevel = 0
    /\ ~lander.mThrustActive

C8_WitnessEmpty ==
    /\ last.op = "ApplyThrust"
    /\ last.arg = 10
    /\ lander.mFuel = 0
    /\ lander.mThrustLevel = 0
    /\ ~lander.mThrustActive

\* C9: after any sequence of RotateLeft(amount) and RotateRight(amount)
\* calls, for any amounts, the z rotation is at least 0 and below 360.
C9_RotationWrapped ==
    lander.mRotation[3] >= 0 /\ lander.mRotation[3] < 360

\* The lander values Game::Reset documents for the mode.
IsResetLander(l, use3D) ==
    /\ l.mVelocity = <<0, 0, 0>>
    /\ l.mRotation = <<0, 0, 0>>
    /\ l.mFuel = mMaxFuel
    /\ l.mThrustLevel = 0
    /\ ~l.mThrustActive
    /\ ~l.mLanded /\ ~l.mCrashed
    /\ l.mPosition = IF use3D THEN <<400 * PosScale, 200 * PosScale, 400 * PosScale>>
                              ELSE <<400 * PosScale, 100 * PosScale, 0>>

\* C10: a Reset from any reachable state of an initialized game leaves the
\* lander with zero velocity, zero rotation, a full tank, thrust level 0
\* and inactive, both flags clear, at the mode's initial position; a second
\* Reset right after changes none of these, nor the game's own fields.
C10_ResetIdempotent ==
    /\ last.reset => IsResetLander(lander, game.m3DMode)
    /\ game.mLander =>
         LET g1 == ResetGame(game)
             l1 == ResetLander(game, lander)
         IN  /\ IsResetLander(l1, g1.m3DMode)
             /\ ResetLander(g1, l1) = l1
             /\ ResetGame(g1) = g1

\* The reset input taken after a landing or a crash put the game back in
\* flight.
C10_Witness ==
    /\ last.reset
    /\ last.op = "ProcessInput"
    /\ game.mGameState = "FLYING"

\* C11: every step that ran Game::Reset, whatever the game state before
\* (READY in Initialize, FLYING on key r or a difficulty key, LANDED or
\* CRASHED on the reset input), leaves the game FLYING with score, elapsed
\* time and fuel used 0 and a terrain freshly generated for the current
\* mode.
C11_ResetSetsFlying ==
    last.reset =>
        /\ game.mGameState = "FLYING"
        /\ game.mScore = 0
        /\ game.mElapsedTime = 0
        /\ game.mFuelUsed = 0
        /\ terrain \in GenerateForMode(game.m3DMode)

\* Key r pressed in the first frame, while the game was FLYING with the
\* terrain Initialize generated.
C11_Witness ==
    /\ last.reset
    /\ last.op = "OnKeyDown"
    /\ frames = 1
    /\ game.mGameState = "FLYING"
    /\ game.mDifficulty = "NORMAL"
    /\ ~game.m3DMode

\* C12: after a difficulty key, that is after SetDifficulty(d), the game
\* holds d, the physics gravity is the value mapped from d (EASY 1.0,
\* NORMAL 1.62, HARD 2.0), and the game is FLYING with a reset lander,
\* score 0 and elapsed time 0, whatever the state before the call.
C12_DifficultySetsGravity ==
    last.key \in {"1", "2", "3"} =>
        /\ game.mDifficulty = KeyDifficulty(last.key)
        /\ physics.mGravity = DifficultyGravity(KeyDifficulty(last.key))
        /\ physics.mGravity =
              (CASE last.key = "1" -> 100 [] last.key = "2" -> 162 [] last.key = "3" -> 200)
        /\ game.mGameState = "FLYING"
        /\ game.mScore = 0
        /\ game.mElapsedTime = 0
        /\ IsResetLander(lander, game.m3DMode)

\* Key 3 pressed in the second frame, after an attempt under lunar gravity:
\* the gravity is now 2.0.
C12_Witness ==
    /\ last.key = "3"
    /\ frames = 2
    /\ physics.mGravity = GravityHard
    /\ game.mDifficulty = "HARD"

\* C13 (as stated): in the Game::Update that detects the landing the score
\* becomes (fuel / max fuel) * 1000 with the fuel the lander had at
\* touchdown, that is when Physics::Update detected the collision; in the
\* one that detects a crash the score becomes 0.
C13_ScoreAtTouchdown ==
    [][ (last'.op = "Update" /\ last'.hit) =>
          IF last'.valid
          THEN game'.mScore = (lander.mFuel * 1000) \div (mMaxFuel \div ScoreScale)
          ELSE game'.mScore = 0 ]_vars

\* C13 (amended): the score of a landing is (fuel / max fuel) * 1000 with
\* the fuel left after the Lander::Update of the same Game::Update, which
\* with thrust active burns consumptionRate * thrustLevel * deltaTime
\* (clamped at 0) after the touchdown; the score of a crash is 0.
C13_ScoreAfterBurn ==
    [][ (last'.op = "Update" /\ last'.hit) =>
          IF last'.valid
          THEN LET burn == IF lander.mThrustActive
                           THEN FuelConsumptionRate * lander.mThrustLevel * deltaTime
                           ELSE 0
                   left == IF burn >= lander.mFuel THEN 0 ELSE lander.mFuel - burn
               IN  /\ lander'.mFuel = left
                   /\ game'.mScore = (left * 1000) \div (mMaxFuel \div ScoreScale)
          ELSE game'.mScore = 0 ]_vars

\* A landing with thrust on: one unit of fuel was burnt in the frame of the
\* touchdown and the score is 999.
C13_Witness ==
    /\ last.op = "Update"
    /\ last.hit /\ last.valid
    /\ game.mGameState = "LANDED"
    /\ lander.mFuel = mMaxFuel - FuelScale
    /\ game.mScore = 999 * ScoreScale

\* C14: every Game::Update(deltaTime) made while the game is FLYING, with
\* deltaTime at most the cap, adds exactly deltaTime to the elapsed time,
\* the call in which the lander lands or crashes included.
C14_ClockAdvances ==
    [][ (last'.op = "Update" /\ game.mGameState = "FLYING" /\ deltaTime <= DeltaTimeCap) =>
          game'.mElapsedTime = game.mElapsedTime + deltaTime ]_vars

\* The Update of a full-length frame in which the flight ended: the clock
\* shows the frame's 0.1 s.
C14_Witness ==
    /\ last.op = "Update"
    /\ last.hit
    /\ game.mGameState \in {"LANDED", "CRASHED"}
    /\ deltaTime = DeltaTimeCap
    /\ game.mElapsedTime = DeltaTimeCap

\* C15: a Game::Update made while the game is READY, LANDED or CRASHED
\* changes nothing: elapsed time, score and game state stay, and so do the
\* lander's position, velocity, fuel and flags.  READY is never seen by
\* the loop (Initialize leaves FLYING), so for READY the call is evaluated
\* on the constructed game and on the game whose Initialize failed.
C15_FrozenWhenNotFlying ==
    /\ [](game.mGameState = "READY" =>
            \A dt \in 0..DeltaTimeCap : GameUpdate(Cur, dt) = Cur)
    /\ [][ (last'.op = "Update" /\ game.mGameState # "FLYING") =>
              /\ game' = game
              /\ lander' = lander ]_vars

\* A full-length Update made on a landed game whose lander still has its
\* thrust switched on from the landing frame.
C15_Witness ==
    /\ last.op = "Update"
    /\ ~last.hit
    /\ game.mGameState = "LANDED"
    /\ lander.mThrustActive
    /\ deltaTime = DeltaTimeCap
    /\ game.mElapsedTime < frames * DeltaTimeCap

\* C16: a frame of Game::Run is one ProcessInput, then one Update, then
\* one Render, and nothing else: wherever the loop stands, the step before
\* was the one the order prescribes (the loop test before the input step,
\* the input step before the simulation step, the simulation step before
\* the render step, the render step or Initialize before the next loop
\* test), so no frame simulates twice and no two frames interleave.
C16_FrameOrder ==
    /\ pc = "input"  => last.op = "FrameStart"
    /\ pc = "flags"  => last.op \in {"Poll", "OnKeyDown"}
    /\ pc = "update" => last.op = "ProcessInput"
    /\ pc = "render" => last.op = "Update"
    /\ pc = "loop"   => last.op \in {"Initialize", "Render"}
    /\ pc = "exited" => last.op \in {"RunExit", "Run"}

\* The second frame has been rendered.
C16_Witness ==
    /\ pc = "loop"
    /\ last.op = "Render"
    /\ frames = 2

\* C17: the deltaTime Game::Run hands to Game::Update is never negative
\* and never above the cap of 0.1, whatever the two tick readings of the
\* frame were (equal, far apart, or the later one below the earlier one
\* after the counter wrapped).
C17_DeltaTimeCapped ==
    (pc \in {"input", "flags", "update"} \/ last.op = "Update") =>
        /\ deltaTime >= 0
        /\ deltaTime <= DeltaTimeCap
        /\ deltaTime <= 1

\* A frame whose tick difference was above the cap is about to run with
\* deltaTime at the cap.
C17_Witness ==
    /\ last.op = "FrameStart"
    /\ last.capped
    /\ pc = "input"
    /\ deltaTime = DeltaTimeCap

\* C18: the loop runs until a quit signal is observed and no frame is cut
\* short: mIsRunning is only cleared by a quit signal (the ESCAPE key or
\* the handler's quit flag, both seen during input processing); the frame
\* that saw it still runs its ProcessInput, Update and Render to the end;
\* after it no further frame begins; and while mIsRunning holds the loop
\* goes on to another frame.
C18_RunsUntilQuit ==
    [][ /\ (game.mIsRunning /\ ~game'.mIsRunning) =>
              (last'.key = "ESCAPE" \/ last'.op = "ProcessInput")
        /\ pc = "flags" => (last'.op = "ProcessInput" /\ pc' = "update")
        /\ pc = "update" => (last'.op = "Update" /\ pc' = "render")
        /\ pc = "render" => (last'.op = "Render" /\ pc' = "loop")
        /\ (pc = "loop" /\ ~game.mIsRunning) => pc' = "exited"
        /\ (pc = "loop" /\ game.mIsRunning) => pc' = "input" ]_vars

\* The engine has no lander or no terrain registered.
Unregistered == ~physics.mLander \/ ~physics.mTerrain

\* C19: with no lander or no terrain registered, Physics::Update (for any
\* step) and Physics::CheckCollisions change nothing of the lander and
\* report no collision; so after such calls the lander has no flag set and
\* has not been accelerated.
C19_UnregisteredNoOp ==
    Unregistered =>
        /\ \A dt \in ApiDeltaTimes :
               PhysicsUpdate(physics, terrain, lander, dt)
                   = [lander |-> lander, ret |-> FALSE, valid |-> FALSE]
        /\ CheckCollisions(physics, terrain, lander)
               = [lander |-> lander, ret |-> FALSE, valid |-> FALSE]
        /\ last.op \in {"PhysicsUpdate", "CheckCollisions"} =>
               /\ ~last.hit
               /\ ~lander.mLanded /\ ~lander.mCrashed
               /\ lander.mVelocity = <<0, 0, 0>>

\* Physics::Update was called on an engine without a terrain while the
\* lander had its thrust on and fuel burnt: it is still where it was.
C19_Witness ==
    /\ physics.mLander /\ ~physics.mTerrain
    /\ last.op = "PhysicsUpdate"
    /\ lander.mThrustActive
    /\ lander.mFuel < mMaxFuel
    /\ lander.mPosition = <<0, 0, 0>>

\* C20: when the renderer fails to initialize at startup, Game::Initialize
\* returns false with the game not running; a Run called after that
\* returns at its entry test: no frame is started, so no ProcessInput,
\* Update or Render runs.
C20_FailedInitAborts ==
    /\ (last.op = "Initialize" /\ ~last.reset) =>
           /\ pc = "aborted"
           /\ ~game.mIsRunning
           /\ frames = 0
    /\ last.op = "Run" =>
           /\ pc = "exited"
           /\ ~game.mIsRunning
           /\ frames = 0
           /\ game.mGameState = "READY"

\* Run was called after a failed Initialize and has returned.
C20_Witness ==
    /\ last.op = "Run"
    /\ pc = "exited"
    /\ frames = 0
    /\ ~physics.mLander

\* The lander as the collision check of Physics::Update finds it: after the
\* forces and the position integration of that call.
AtDetection(ph, l, dt) ==
    IF ph.m3DMode
    THEN Integrate3D(ApplyDrag(ph, ApplyThrust(ph, ApplyGravity(ph, l, dt), dt), dt), dt)
    ELSE Integrate2D(ApplyDrag(ph, ApplyThrust(ph, ApplyGravity(ph, l, dt * ph.mTimeScale),
                                               dt * ph.mTimeScale), dt * ph.mTimeScale), dt)

\* What the terrain answers for lander l.
TerrainAnswer(ph, ter, l) ==
    IF ph.m3DMode THEN CheckCollision3D(ter.mTriangles3D, l)
    ELSE CheckCollision2D(ter.mSegments2D, l)

\* C21: at the end of a Game::Update in which a collision was detected the
\* lander sits exactly on the collision height the terrain reported: its y
\* is that height corrected by half the lander's height, its x is the one
\* it had when the collision was detected, and it is not embedded in the
\* terrain, that is, its bottom edge is not below the reported surface.
C21_SnappedToSurface ==
    [][ (last'.op = "Update" /\ last'.hit) =>
          LET at == AtDetection(physics, lander, deltaTime)
              c  == TerrainAnswer(physics, terrain, at)
              half == (LanderHeight * PosScale) \div 2
          IN  /\ c.hit
              /\ Abs(lander'.mPosition[2] - c.collisionHeight) = half
              /\ lander'.mPosition[1] = at.mPosition[1]
              /\ BottomEdge(lander') >= c.collisionHeight ]_vars

\* The setup of the landing scenario: lunar gravity, 2D, an upright lander
\* with no horizontal velocity above a flat terrain that is a landing pad
\* over its full width.
LandingScenario ==
    /\ physics.mGravity = GravityNormal
    /\ ~game.m3DMode
    /\ game.mGameState = "FLYING"
    /\ lander.mVelocity[1] = 0
    /\ lander.mRotation[3] = 0
    /\ terrain.mSegments2D # <<>>
    /\ \A i \in DOMAIN terrain.mSegments2D :
          LET sg == terrain.mSegments2D[i]
          IN  /\ sg.isLandingPad
              /\ sg.y1 = sg.y2
              /\ sg.y1 = terrain.mSegments2D[1].y1
              /\ sg.y1 * PosScale < BottomEdge(lander)

\* C22: in the landing scenario a frame flown with thrust on reduces the
\* vertical speed of a moving lander, so that sustained thrust brings it
\* below the safe threshold before impact, and a flight that ends in such
\* a frame ends LANDED with score (remaining fuel / max fuel) x 1000.
C22_ThrustBrakesToLanding ==
    [][ (last'.op = "Update" /\ LandingScenario /\ lander.mThrustActive) =>
          /\ lander.mVelocity[2] # 0 =>
                Abs(lander'.mVelocity[2]) < Abs(lander.mVelocity[2])
          /\ game'.mGameState # "FLYING" =>
                /\ game'.mGameState = "LANDED"
                /\ game'.mScore = LandingScore(lander') ]_vars

\* The velocity a flying lander has after the forces of one Physics::Update
\* of step dt, written out: gravity on y, thrust against it (in 3D along
\* the rotation), no drag at air density 0.
ForcedVelocity(ph, l, dt) ==
    LET step   == IF ph.m3DMode THEN dt ELSE dt * ph.mTimeScale
        thrust == IF l.mThrustActive
                  THEN ThrustFactor * ph.mGravity * l.mThrustLevel * step ELSE 0
        vy     == l.mVelocity[2] + ph.mGravity * step * GravityFactor
    IN  IF ph.m3DMode
        THEN << l.mVelocity[1] - SinDeg(l.mRotation[3]) * thrust,
                vy - CosDeg(l.mRotation[3]) * thrust,
                l.mVelocity[3] - SinDeg(l.mRotation[1]) * thrust >>
        ELSE << l.mVelocity[1], vy - thrust, l.mVelocity[3] >>

\* The position one forward-Euler step of dt with velocity v leads to.
EulerStep(ph, l, v, dt) ==
    << l.mPosition[1] + v[1] * dt,
       l.mPosition[2] + v[2] * dt,
       IF ph.m3DMode THEN l.mPosition[3] + v[3] * dt ELSE 0 >>

\* C24: one Physics::Update(deltaTime) on a registered, flying lander first applies
\* gravity, thrust and drag to the velocity, then moves the position by
\* the velocity these forces left, and only then asks the terrain, about
\* the moved position: a collision is reported exactly when the terrain
\* reports one there; without one the lander ends at the moved position
\* with the forced velocity, with one it is snapped from the moved
\* position and stopped.
C24_UpdateOrder ==
    [][ (last'.op = "PhysicsUpdate" /\ ~Unregistered /\ ~Grounded(lander)
           /\ physics.mAirDensity = 0) =>
          LET dt  == last'.arg
              v   == ForcedVelocity(physics, lander, dt)
              p   == EulerStep(physics, lander, v, dt)
              ans == TerrainAnswer(physics, terrain,
                                   [lander EXCEPT !.mVelocity = v, !.mPosition = p])
          IN  /\ last'.hit = ans.hit
              /\ ~ans.hit => (lander'.mVelocity = v /\ lander'.mPosition = p)
              /\ ans.hit =>
                    /\ lander'.mPosition[1] = p[1]
                    /\ lander'.mPosition[2] =
                          ans.collisionHeight - (LanderHeight * PosScale) \div 2
                    /\ lander'.mVelocity[1] = 0 /\ lander'.mVelocity[2] = 0 ]_vars

\* The terrain's answer before and after the position step differ, and
\* the call reports the one after it.  A 3D Physics::Update(0.1) with the
\* lander lying on its side and thrust on: at x = 390 the footprint ended
\* on the grid line and only the low cell lay under it (no collision at
\* the place the lander came from); the step moved it 0.0405 over the
\* line, the high cell is under it and the collision is reported.
C24_Witness ==
    /\ physics.m3DMode
    /\ last.op = "PhysicsUpdate"
    /\ last.arg = 1
    /\ last.hit
    /\ lander.mPosition[1] = 390 * PosScale + 40500
    /\ lander.mPosition[2] = 385 * PosScale
    /\ ~TerrainAnswer(physics, terrain,
                      SetPosition(lander, 390 * PosScale, ResetHeight * PosScale, 0)).hit

\* The other way round, in 2D: the lander's bottom edge was level with the
\* surface at 400 (a collision at the place it came from), the step of a
\* Physics::Update(0.1) moved it off by 0.0167022 and no collision is
\* reported.
C24_WitnessLeaves ==
    /\ ~physics.m3DMode
    /\ last.op = "PhysicsUpdate"
    /\ last.arg = 1
    /\ ~last.hit
    /\ ~Grounded(lander)
    /\ lander.mPosition = <<0, 415 * PosScale + 167022, 0>>
    /\ TerrainAnswer(physics, terrain, SetPosition(lander, 0, 415 * PosScale, 0)).hit

\* A Physics::Update of 0.1 s with thrust on, from rest at height 100 under
\* lunar gravity: the position has moved by the velocity the forces left.
C24_WitnessThrust ==
    /\ last.op = "PhysicsUpdate"
    /\ ~last.hit
    /\ ~Grounded(lander)
    /\ lander.mThrustActive
    /\ lander.mVelocity[2] = 126522
    /\ lander.mPosition[2] = ResetHeight * PosScale + 126522

\* C25: in a Game::Update that starts FLYING and reports no collision the
\* lander's position changes by exactly velocity x deltaTime, one
\* forward-Euler step of the physics engine (taken with the velocity the
\* frame's forces left, or with the one before them).
C25_OneEulerStep ==
    [][ (last'.op = "Update" /\ game.mGameState = "FLYING" /\ game.mLander
           /\ ~last'.hit) =>
          \/ lander'.mPosition = EulerStep(physics, lander, lander'.mVelocity, deltaTime)
          \/ lander'.mPosition = EulerStep(physics, lander, lander.mVelocity, deltaTime) ]_vars

\* C26: at the end of every frame the game's fuel-used counter equals the
\* fuel the lander has consumed since the last Reset, max fuel minus the
\* current fuel, and right after a Reset it is 0.
C26_FuelUsedTracksFuel ==
    /\ last.reset => game.mFuelUsed = 0
    /\ (last.op = "Render" /\ game.mLander) =>
           game.mFuelUsed = mMaxFuel - lander.mFuel

\* C27: in every state after a successful Initialize (the lander and the
\* terrain are registered with the engine) the physics engine's mode is
\* the game's mode, so that Physics::Update takes the 3D path exactly when
\* the game is in 3D mode.
C27_PhysicsModeAgrees ==
    (game.mLander /\ physics.mLander /\ physics.mTerrain) =>
        physics.m3DMode = game.m3DMode

\* C28: in every state of a running game the physics gravity is the value
\* mapped from the game's current difficulty (EASY 1.0, NORMAL 1.62,
\* HARD 2.0), whatever SetDifficulty, Reset and SetRenderingMode calls
\* were made.
C28_GravityMatchesDifficulty ==
    (game.mIsRunning /\ game.mLander) =>
        /\ physics.mGravity = DifficultyGravity(game.mDifficulty)
        /\ physics.mGravity =
              (CASE game.mDifficulty = "EASY" -> 100
                 [] game.mDifficulty = "NORMAL" -> 162
                 [] game.mDifficulty = "HARD" -> 200)

\* C29: READY is the state of a game whose Initialize has not succeeded,
\* and only of such a game: a successful Initialize leaves FLYING, no step
\* leads from another state back to READY, the loop never stands in a
\* frame with the game READY, and so no ProcessInput ever takes the
\* READY-to-FLYING transition of the start input.
C29_ReadyOnlyBeforeInit ==
    /\ []((last.op = "Initialize" /\ last.reset) => game.mGameState = "FLYING")
    /\ [](pc \in {"loop", "input", "flags", "update", "render"} =>
            game.mGameState # "READY")
    /\ [](game.mGameState = "READY" => (~game.mIsRunning /\ frames = 0))
    /\ [][ /\ game.mGameState # "READY" => game'.mGameState # "READY"
           /\ last'.op = "ProcessInput" => game.mGameState # "READY" ]_vars

\* A mode toggle whose re-initialization failed, after an attempt that had
\* ended: the components are gone and the game is not running, yet the
\* state is not READY.
C29_Witness ==
    /\ last.key = "TAB"
    /\ ~last.reset
    /\ ~game.mIsRunning
    /\ ~physics.mLander
    /\ game.mGameState \in {"LANDED", "CRASHED"}
    /\ frames = 2

\* The case C30 is about: a Physics::Update with a positive step on a 2D
\* engine with zero air density, positive gravity and positive time
\* scale, made while the lander is neither landed nor crashed.
FlyingUpdate2D ==
    /\ last'.op = "PhysicsUpdate"
    /\ deltaTime' > 0
    /\ ~physics.m3DMode
    /\ physics.mAirDensity = 0
    /\ physics.mGravity > 0
    /\ physics.mTimeScale > 0
    /\ ~Grounded(lander)

\* C30 (as stated): every such update strictly increases the velocity's y
\* component, for every thrust level in [0,1].
C30_VelocityYIncreases ==
    [][ FlyingUpdate2D => lander'.mVelocity[2] > lander.mVelocity[2] ]_vars

\* C30 (amended): every such update on an engine with lander and terrain
\* registered that detects no collision strictly increases the velocity's
\* y component, by gravity x 10.31 x step less 2.5 x gravity x thrust
\* level x step (step = deltaTime x time scale), which is positive for
\* every thrust level in [0,1]; an update that detects a collision sets
\* the y component to 0 and one on an unregistered engine leaves it.
C30_VelocityYIncreasesInFlight ==
    [][ FlyingUpdate2D =>
          LET step   == deltaTime' * physics.mTimeScale
              pull   == physics.mGravity * GravityFactor * step
              thrust == IF lander.mThrustActive
                        THEN ThrustFactor * physics.mGravity * lander.mThrustLevel * step
                        ELSE 0
          IN  /\ pull > thrust
              /\ (~Unregistered /\ ~last'.hit) =>
                    /\ lander'.mVelocity[2] = lander.mVelocity[2] + pull - thrust
                    /\ lander'.mVelocity[2] > lander.mVelocity[2]
              /\ last'.hit => lander'.mVelocity[2] = 0
              /\ Unregistered => lander'.mVelocity[2] = lander.mVelocity[2] ]_vars

\* An update of 0.1 s at full thrust under the strongest gravity with the
\* time scale doubled: the lander is still flying and its y velocity has
\* grown from 0 to 3.124.
C30_Witness ==
    /\ last.op = "PhysicsUpdate"
    /\ ~last.hit
    /\ ~Grounded(lander)
    /\ deltaTime = 1
    /\ frames = 1
    /\ physics.mGravity = GravityHard
    /\ physics.mTimeScale = 2
    /\ lander.mThrustActive /\ lander.mThrustLevel = 10
    /\ lander.mVelocity[2] = 312400

====
